---- MODULE Spec2Model ----
(***************************************************************************)
(* Model of tools/generate_data.py: build_landscape_data groups a list of  *)
(* project records into categories / subcategories / items and resolves    *)
(* each item's logo, optionally downloading it into a logo directory.      *)
(*                                                                         *)
(* Python values are tagged records (None, Str, List); a str is a sequence *)
(* of one-character strings so that split and strip are computed.  A dict  *)
(* with literal keys is a TLA+ function whose DOMAIN is its key set; the   *)
(* insertion-ordered dicts keyed by computed names are sequences of        *)
(* [key, value] entries.                                                   *)
(***************************************************************************)
EXTENDS Integers, Sequences, FiniteSets, TLC

-----------------------------------------------------------------------------
(* Bounds of the model *)

MaxProjects == 3

MaxLogoProjects == 2

MaxCatLen == 5

MaxRepos == 2

-----------------------------------------------------------------------------
(* Python values *)

None == [type |-> "NoneType"]

Str(s) == [type |-> "str", value |-> s]

List(l) == [type |-> "list", value |-> l]

EmptyDict == [k \in {} |-> k]

\* bool(v) for None, str and list
Truthy(v) == v.type # "NoneType" /\ v.value # <<>>

\* dict.get(key, default)
get(d, key, default) == IF key \in DOMAIN d THEN d[key] ELSE default

\* v or default
Or(v, default) == IF Truthy(v) THEN v ELSE default

Whitespace == {" "}

Unknown == Str(<<"U", "n", "k", "n", "o", "w", "n">>)

Misc == Str(<<"M", "i", "s", "c">>)

PlaceholderSvg == Str(<<"p", "l", "a", "c", "e", "h", "o", "l", "d", "e", "r", ".", "s", "v", "g">>)

-----------------------------------------------------------------------------
(* str.split(sep, maxsplit) and str.strip(), on sequences of characters *)

RECURSIVE find(_, _, _)
\* index of the first sep at or after position from, 0 when there is none
find(s, sep, from) ==
    IF from > Len(s) THEN 0
    ELSE IF s[from] = sep THEN from
    ELSE find(s, sep, from + 1)

RECURSIVE split(_, _, _)
\* maxsplit = -1 is Python's "no limit"
split(s, sep, maxsplit) ==
    LET k == find(s, sep, 1) IN
    IF maxsplit = 0 \/ k = 0 THEN <<s>>
    ELSE <<SubSeq(s, 1, k - 1)>> \o split(SubSeq(s, k + 1, Len(s)), sep, maxsplit - 1)

RECURSIVE lstrip(_)
lstrip(s) == IF s # <<>> /\ Head(s) \in Whitespace THEN lstrip(Tail(s)) ELSE s

RECURSIVE rstrip(_)
rstrip(s) ==
    IF s # <<>> /\ s[Len(s)] \in Whitespace THEN rstrip(SubSeq(s, 1, Len(s) - 1)) ELSE s

strip(s) == rstrip(lstrip(s))

RECURSIVE join(_, _)
\* sep.join(parts)
join(parts, sep) ==
    IF parts = <<>> THEN <<>>
    ELSE IF Len(parts) = 1 THEN parts[1]
    ELSE parts[1] \o <<sep>> \o join(Tail(parts), sep)

-----------------------------------------------------------------------------
(* pathlib.Path (POSIX): an anchor ("/" or none) and the name components *)

\* Path(s)
Path(s) ==
    [anchor |-> IF s # <<>> /\ s[1] = "/" THEN <<"/">> ELSE <<>>,
     parts  |-> SelectSeq(split(s, "/", -1), LAMBDA c : c # <<>>)]

\* str(p)
path_str(p) ==
    IF p.anchor = <<>> /\ p.parts = <<>> THEN <<".">>
    ELSE p.anchor \o join(p.parts, "/")

\* p / name, for a name without "/"
joinpath(p, name) ==
    IF name = <<>> THEN p ELSE [p EXCEPT !.parts = Append(@, name)]

\* Path.cwd()
Cwd == Path(<<"/", "w">>)

IsPrefix(a, b) == Len(a) <= Len(b) /\ SubSeq(b, 1, Len(a)) = a

\* p.relative_to(other) raises ValueError unless other is an ancestor of p
relative_to_raises(p, other) ==
    ~(p.anchor = other.anchor /\ IsPrefix(other.parts, p.parts))

relative_to(p, other) ==
    [anchor |-> <<>>, parts |-> SubSeq(p.parts, Len(other.parts) + 1, Len(p.parts))]

\* the file a path names once the process opens it
resolve(p) ==
    IF p.anchor = <<>> THEN [Cwd EXCEPT !.parts = @ \o p.parts] ELSE p

-----------------------------------------------------------------------------
(* insertion-ordered dict: a sequence of [key, value] entries, keys distinct *)

has_key(d, key) == \E k \in 1..Len(d) : d[k].key = key

index(d, key) == CHOOSE k \in 1..Len(d) : d[k].key = key

\* d.setdefault(key, default): the dict afterwards
setdefault_reset(d, key, default) ==
    IF has_key(d, key)
    THEN [d EXCEPT ![index(d, key)].value = default]
    ELSE Append(d, [key |-> key, value |-> default])

setdefault(d, key, default) ==
    IF has_key(d, key) THEN d ELSE Append(d, [key |-> key, value |-> default])

\* list(d.values())
values(d) == [k \in 1..Len(d) |-> d[k].value]

\* l.append(x)
list_prepend(l, x) == <<x>> \o l

list_append(l, x) == Append(l, x)

-----------------------------------------------------------------------------
(* State *)

VARIABLES
    projects,    \* the input list (argument of build_landscape_data)
    logo_dir,    \* None, or the Path of the logo directory
    pc,          \* "loop", "returned" or "raised" (an exception left the call)
    i,           \* position of the for loop: index of the next record
    categories,  \* the ordered dict cat_name -> {name, subcategories}
    result,      \* the returned document, None before the return
    files,       \* the files written so far: resolved path -> content
    requests,    \* the GET requests issued by the current call, in order
    responses,   \* what each record of the current call met: "none" or a response
    run,         \* 1 in the first call, 2 in a second call on the same input
    first        \* what the first call returned and met, None during it

vars == <<projects, logo_dir, pc, i, categories, result, files, requests,
          responses, run, first>>

PathValue(p) == [type |-> "Path", value |-> p]

\* the content a server returns for a URL
Content(url) == url

write(fs, p, content) == [q \in DOMAIN fs \cup {p} |-> IF q = p THEN content ELSE fs[q]]

\* what a download can meet: "request_error" is requests.get or
\* raise_for_status raising, "write_error" is f.write raising after the file
\* was opened (and so truncated)
Responses == {"ok", "request_error", "write_error"}

\* the bytes of a file whose write failed
Truncated == <<>>

-----------------------------------------------------------------------------
(* download_logo: one GET, then the file write; any exception gives the    *)
(* placeholder under dest.  Opening dest itself (empty file name) raises   *)
(* IsADirectoryError before anything is written.                           *)

\* url.split("/")[-1].split("?")[0]
file_name_of(url) ==
    LET parts == split(url, "/", -1)
    IN  split(parts[Len(parts)], "?", -1)[1]

\* str(dest / "placeholder.svg")
fallback(dest) == Str(path_str(joinpath(dest, PlaceholderSvg.value)))

download_logo_retry(url, dest, response) ==
    LET file_path == joinpath(dest, file_name_of(url))
    IN  IF response = "request_error"
        THEN [ret |-> fallback(dest), files |-> files, requests |-> <<url, url>>]
        ELSE IF file_path = dest
        THEN [ret |-> fallback(dest), files |-> files, requests |-> <<url>>]
        ELSE IF response = "write_error"
        THEN [ret |-> fallback(dest),
              files |-> write(files, resolve(file_path), Truncated),
              requests |-> <<url>>]
        ELSE [ret |-> Str(path_str(file_path)),
              files |-> write(files, resolve(file_path), Content(url)),
              requests |-> <<url>>]

download_logo_cached(url, dest, response) ==
    LET file_path == joinpath(dest, file_name_of(url))
    IN  IF response = "request_error" \/ file_path = dest
           \/ resolve(file_path) \in DOMAIN files
        THEN [ret |-> fallback(dest), files |-> files, requests |-> <<url>>]
        ELSE IF response = "write_error"
        THEN [ret |-> fallback(dest),
              files |-> write(files, resolve(file_path), Truncated),
              requests |-> <<url>>]
        ELSE [ret |-> Str(path_str(file_path)),
              files |-> write(files, resolve(file_path), Content(url)),
              requests |-> <<url>>]

download_logo(url, dest, response) ==
    LET file_path == joinpath(dest, file_name_of(url))
    IN  IF response = "request_error" \/ file_path = dest
        THEN [ret |-> fallback(dest), files |-> files, requests |-> <<url>>]
        ELSE IF response = "write_error"
        THEN [ret |-> fallback(dest),
              files |-> write(files, resolve(file_path), Truncated),
              requests |-> <<url>>]
        ELSE [ret |-> Str(path_str(file_path)),
              files |-> write(files, resolve(file_path), Content(url)),
              requests |-> <<url>>]

-----------------------------------------------------------------------------
(* The body of the for loop, in the order of the code *)

RECURSIVE rfind(_, _, _)
\* index of the last sep at or before position from, 0 when there is none
rfind(s, sep, from) ==
    IF from < 1 THEN 0
    ELSE IF s[from] = sep THEN from
    ELSE rfind(s, sep, from - 1)

split_last(s, sep, maxsplit) ==
    LET k == rfind(s, sep, Len(s)) IN
    IF maxsplit = 0 \/ k = 0 THEN <<s>>
    ELSE <<SubSeq(s, 1, k - 1), SubSeq(s, k + 1, Len(s))>>

\* cat_str.split("/", maxsplit=1)
split_category(s, sep, maxsplit) == split(s, sep, maxsplit)

\* <<cat_name, subcat_name>> of a str category
parse_category(cat_str) ==
    LET raw   == split_category(cat_str.value, "/", 1)
        parts == [k \in 1..Len(raw) |-> Str(strip(raw[k]))]
    IN  IF Len(parts) = 2 THEN <<parts[1], parts[2]>> ELSE <<parts[1], Misc>>

\* the three fields every item starts with
base_item(proj) ==
    [name         |-> get(proj, "name", None),
     description  |-> get(proj, "summary", None),
     homepage_url |-> get(proj, "url", None)]

\* the optional project key
project_field(proj) ==
    LET state == get(proj, "state", None)
    IN  IF Truthy(state) THEN [project |-> state] ELSE EmptyDict

\* the optional repo_url key
repo_url_field_any(proj) ==
    LET repos == Or(get(proj, "github_repos", None), List(<<>>))
        urls  == SelectSeq(repos.value, LAMBDA r : Truthy(get(r, "url", None)))
    IN  IF urls # <<>> THEN [repo_url |-> urls[1]["url"]] ELSE EmptyDict

repo_url_field(proj) ==
    LET repos == Or(get(proj, "github_repos", None), List(<<>>))
    IN  IF Truthy(repos)
        THEN LET repo_url == get(repos.value[1], "url", None)
             IN  IF Truthy(repo_url) THEN [repo_url |-> repo_url] ELSE EmptyDict
        ELSE EmptyDict

\* the logo without a download
keep_logo_verbatim(logo_url) == logo_url

keep_logo(logo_url) == IF Truthy(logo_url) THEN logo_url ELSE PlaceholderSvg

\* the path of a downloaded logo, relative to the working directory if it can be
relative_logo(path) ==
    IF relative_to_raises(Path(path.value), Cwd)
    THEN path
    ELSE Str(path_str(relative_to(Path(path.value), Cwd)))

\* whether this record's logo is downloaded
wants_download(proj) ==
    logo_dir # None /\ Truthy(get(proj, "logo", None))

ProcessRecord ==
    /\ pc = "loop"
    /\ i <= Len(projects)
    /\ LET proj    == projects[i]
           cat_str == get(proj, "category", Unknown)
       IN  IF cat_str.type # "str"
           THEN \* None has no split: AttributeError leaves the call
                /\ pc' = "raised"
                /\ UNCHANGED <<projects, logo_dir, i, categories, result, files,
                               requests, responses, run, first>>
           ELSE \E response \in IF wants_download(proj) THEN Responses ELSE {"none"} :
                LET names    == parse_category(cat_str)
                    cat_name == names[1]
                    sub_name == names[2]
                    cats1    == setdefault(categories, cat_name,
                                           [name |-> cat_name, subcategories |-> <<>>])
                    ci       == index(cats1, cat_name)
                    subs1    == setdefault(cats1[ci].value.subcategories, sub_name,
                                           [name |-> sub_name, items |-> <<>>])
                    si       == index(subs1, sub_name)
                    logo_url == get(proj, "logo", None)
                    dl       == download_logo(logo_url.value, logo_dir.value, response)
                    logo     == IF wants_download(proj)
                                THEN relative_logo(dl.ret)
                                ELSE keep_logo(logo_url)
                    item     == [logo |-> logo] @@ repo_url_field(proj)
                                @@ project_field(proj) @@ base_item(proj)
                    subs2    == [subs1 EXCEPT ![si].value.items = list_append(@, item)]
               IN  /\ categories' = [cats1 EXCEPT ![ci].value.subcategories = subs2]
                   /\ files' = IF wants_download(proj) THEN dl.files ELSE files
                   /\ requests' = IF wants_download(proj)
                                  THEN requests \o dl.requests ELSE requests
                   /\ responses' = Append(responses, response)
                   /\ i' = i + 1
                   /\ UNCHANGED <<projects, logo_dir, pc, result, run, first>>

\* the conversion of the nested dicts to lists, and the return
Return ==
    /\ pc = "loop"
    /\ i > Len(projects)
    /\ LET category_list ==
               [k \in 1..Len(categories) |->
                   [categories[k].value EXCEPT !.subcategories = values(@)]]
       IN  result' = [categories |-> category_list]
    /\ pc' = "returned"
    /\ UNCHANGED <<projects, logo_dir, i, categories, files, requests, responses,
                   run, first>>

\* a second call of build_landscape_data with the same arguments
Rerun ==
    /\ pc = "returned"
    /\ run = 1
    /\ run' = 2
    /\ first' = [result |-> result, responses |-> responses]
    /\ pc' = "loop"
    /\ i' = 1
    /\ categories' = <<>>
    /\ result' = None
    /\ requests' = <<>>
    /\ responses' = <<>>
    /\ UNCHANGED <<projects, logo_dir, files>>

Next == ProcessRecord \/ Return

NextRerun == ProcessRecord \/ Return \/ Rerun

-----------------------------------------------------------------------------
(* Inputs *)

Absent == [type |-> "absent"]

\* a dict with the key, or without it
Opt(key, v) == IF v = Absent THEN EmptyDict ELSE (key :> v)

RECURSIVE SeqsUpTo(_, _)
SeqsUpTo(S, n) ==
    IF n = 0 THEN {<<>>}
    ELSE LET shorter == SeqsUpTo(S, n - 1)
         IN  shorter \cup {Append(s, x) : s \in {t \in shorter : Len(t) = n - 1}, x \in S}

\* the name of the k-th project of an input list
Digit(k) == Str(<<ToString(k)>>)

Start ==
    /\ pc = "loop"
    /\ i = 1
    /\ categories = <<>>
    /\ result = None
    /\ files = EmptyDict
    /\ requests = <<>>
    /\ responses = <<>>
    /\ run = 1
    /\ first = None

LogosRel == PathValue(Path(<<"l">>))

LogosAbs == PathValue(Path(<<"/", "w", "/", "l">>))

\* one record whose category is any short string, or missing
CatChars == {"A", "B", "C", " ", "/"}

SplitCategories == {Absent} \cup {Str(s) : s \in SeqsUpTo(CatChars, MaxCatLen)}

InitSplit ==
    /\ \E c \in SplitCategories : projects = <<Opt("category", c)>>
    /\ logo_dir = None
    /\ Start

\* lists of projects that differ in their category, under both logo policies
GroupCategories ==
    {Absent, None,
     Str(<<"A">>),
     Str(<<"B">>),
     Str(<<"A", "/", "B">>),
     Str(<<"A", " ", "/", " ", "B">>)}

InitGroup ==
    /\ \E cs \in SeqsUpTo(GroupCategories, MaxProjects) :
          projects = [k \in 1..Len(cs) |->
                         Opt("category", cs[k])
                         @@ [name |-> Digit(k), logo |-> Str(<<"a", "/", "x">>)]]
    /\ logo_dir \in {None, LogosRel}
    /\ Start

\* one record, every shape of the copied and of the optional fields
TextValues(c) == {Absent, None, Str(<<c>>)}

StateValues == {Absent, None, Str(<<>>), Str(<<"M">>)}

RepoDicts == {EmptyDict, [url |-> Str(<<>>)], [url |-> Str(<<"g">>)]}

RepoValues == {Absent, None} \cup {List(l) : l \in SeqsUpTo(RepoDicts, MaxRepos)}

InitFields ==
    /\ \E n \in TextValues("n"), s \in TextValues("s"), u \in TextValues("u"),
          st \in StateValues, g \in RepoValues :
          projects = <<Opt("name", n) @@ Opt("summary", s) @@ Opt("url", u)
                       @@ Opt("state", st) @@ Opt("github_repos", g)>>
    /\ logo_dir = None
    /\ Start

\* lists of projects that differ in their logo, under each logo policy
LogoValues ==
    {Absent, None,
     Str(<<>>),
     Str(<<"a", "/", "x">>),
     Str(<<"b", "/", "x">>),
     Str(<<"a", "/", "x", "?", "q">>),
     Str(<<"a", "/">>)}

InitLogo ==
    /\ \E ls \in SeqsUpTo(LogoValues, MaxLogoProjects) :
          projects = [k \in 1..Len(ls) |-> Opt("logo", ls[k]) @@ [name |-> Digit(k)]]
    /\ logo_dir \in {None, LogosRel, LogosAbs}
    /\ Start

SpecSplit == InitSplit /\ [][Next]_vars

SpecGroup == InitGroup /\ [][Next]_vars

SpecFields == InitFields /\ [][Next]_vars

SpecLogo == InitLogo /\ [][NextRerun]_vars

-----------------------------------------------------------------------------
(* What the properties observe *)

\* the records the current call has processed
Processed == SubSeq(projects, 1, i - 1)

\* the grouping as a list of categories: the returned one after the return,
\* the one under construction before
Doc ==
    IF pc = "returned"
    THEN result.categories
    ELSE [c \in 1..Len(categories) |->
             [name |-> categories[c].value.name,
              subcategories |-> [s \in 1..Len(categories[c].value.subcategories) |->
                                    categories[c].value.subcategories[s].value]]]

\* where the items are: <<category, subcategory, position>>
ItemPlaces ==
    {<<c, s, k>> \in (1..Len(projects)) \X (1..Len(projects)) \X (1..Len(projects)) :
        /\ c <= Len(Doc)
        /\ s <= Len(Doc[c].subcategories)
        /\ k <= Len(Doc[c].subcategories[s].items)}

ItemAt(p) == Doc[p[1]].subcategories[p[2]].items[p[3]]

\* where the item of the k-th project is (projects are named by position)
PlacesOf(k) == {p \in ItemPlaces : ItemAt(p)["name"] = Digit(k)}

ItemOf(k) == ItemAt(CHOOSE p \in ItemPlaces : ItemAt(p)["name"] = Digit(k))

Names(seq) == [k \in 1..Len(seq) |-> seq[k]["name"]]

\* names lists the distinct elements of keys in the order of their first occurrence
IsFirstSeenOrder(names, keys) ==
    /\ \A a, b \in 1..Len(names) : a # b => names[a] # names[b]
    /\ {names[a] : a \in 1..Len(names)} = {keys[k] : k \in 1..Len(keys)}
    /\ \A a, b \in 1..Len(names) :
          a < b => \E ka \in 1..Len(keys) :
                      /\ keys[ka] = names[a]
                      /\ \A kb \in 1..ka : keys[kb] # names[b]

\* the <<category, subcategory>> of a processed record
PairOf(proj) == parse_category(get(proj, "category", Unknown))

-----------------------------------------------------------------------------
(* C1 - one item per record *)

\* C1: after each record, and in the returned document, the number of items
\* over all subcategories of all categories equals the number of records read;
\* every record has exactly one item, under both logo policies.
C1_OneItemPerRecord ==
    /\ Cardinality(ItemPlaces) = i - 1
    /\ \A k \in 1..(i - 1) : Cardinality(PlacesOf(k)) = 1
    /\ pc = "returned" => Cardinality(ItemPlaces) = Len(projects)

C1_Witness ==
    /\ pc = "returned"
    /\ logo_dir # None
    /\ Len(projects) = 3
    /\ Len(Doc) = 2
    /\ Cardinality(ItemPlaces) = 3

-----------------------------------------------------------------------------
(* C2 - the category string *)

\* t is s without its leading and trailing whitespace
IsTrimOf(t, s) ==
    \E a, b \in 0..Len(s) :
        /\ a + b <= Len(s)
        /\ t = SubSeq(s, a + 1, Len(s) - b)
        /\ \A j \in 1..a : s[j] = " "
        /\ \A j \in (Len(s) - b + 1)..Len(s) : s[j] = " "
        /\ t # <<>> => t[1] # " " /\ t[Len(t)] # " "

C2_Expected(proj, cat, sub) ==
    IF "category" \notin DOMAIN proj
    THEN cat = Unknown /\ sub = Misc
    ELSE LET c == proj["category"].value IN
         IF \A j \in 1..Len(c) : c[j] # "/"
         THEN IsTrimOf(cat.value, c) /\ sub = Misc
         ELSE \E k \in 1..Len(c) :
                 /\ c[k] = "/"
                 /\ \A j \in 1..(k - 1) : c[j] # "/"
                 /\ IsTrimOf(cat.value, SubSeq(c, 1, k - 1))
                 /\ IsTrimOf(sub.value, SubSeq(c, k + 1, Len(c)))

C2_Example(c, cat, sub) ==
    projects[1] = [category |-> Str(c)]
        => Doc[1].name = Str(cat) /\ Doc[1].subcategories[1].name = Str(sub)

\* C2: the category string is split at its first "/" only and both parts are
\* trimmed; without a "/" the trimmed string is the category and the
\* subcategory is "Misc"; without a category they are "Unknown" and "Misc".
C2_SplitOnFirstSlash ==
    i > 1 =>
        /\ Len(Doc) = 1
        /\ Len(Doc[1].subcategories) = 1
        /\ C2_Expected(projects[1], Doc[1].name, Doc[1].subcategories[1].name)
        /\ C2_Example(<<"A", " ", "/", " ", "B">>, <<"A">>, <<"B">>)
        /\ C2_Example(<<"A", "/", "B", "/", "C">>, <<"A">>, <<"B", "/", "C">>)
        /\ C2_Example(<<"A">>, <<"A">>, Misc.value)
        /\ projects[1] = EmptyDict
               => Doc[1].name = Unknown /\ Doc[1].subcategories[1].name = Misc

C2_Witness ==
    /\ pc = "returned"
    /\ projects[1] = [category |-> Str(<<"A", "/", "B", "/", "C">>)]
    /\ Doc[1].name = Str(<<"A">>)
    /\ Doc[1].subcategories[1].name = Str(<<"B", "/", "C">>)

-----------------------------------------------------------------------------
(* C3 - first-seen order *)

C3_Pairs == [k \in 1..Len(Processed) |-> PairOf(Processed[k])]

\* C3: categories are in the order their names are first seen, the
\* subcategories of a category in the order they are first seen in it, and the
\* items of a subcategory are the records of that <<category, subcategory>> in
\* input order; after each record, for the records read so far.
C3_FirstSeenOrder ==
    /\ IsFirstSeenOrder(Names(Doc), [k \in 1..Len(C3_Pairs) |-> C3_Pairs[k][1]])
    /\ \A c \in 1..Len(Doc) :
          LET inCat == SelectSeq(C3_Pairs, LAMBDA pr : pr[1] = Doc[c].name)
          IN  /\ IsFirstSeenOrder(Names(Doc[c].subcategories),
                                  [k \in 1..Len(inCat) |-> inCat[k][2]])
              /\ \A s \in 1..Len(Doc[c].subcategories) :
                    Names(Doc[c].subcategories[s].items)
                        = Names(SelectSeq(Processed,
                                LAMBDA pj : PairOf(pj) = <<Doc[c].name,
                                                           Doc[c].subcategories[s].name>>))

C3_Witness ==
    /\ pc = "returned"
    /\ Len(projects) = 3
    /\ get(projects[3], "category", None) = Str(<<"A", " ", "/", " ", "B">>)
    /\ Names(Doc) = <<Str(<<"A">>), Str(<<"B">>)>>
    /\ Names(Doc[1].subcategories) = <<Str(<<"B">>)>>
    /\ Names(Doc[1].subcategories[1].items) = <<Digit(1), Digit(3)>>
    /\ Names(Doc[2].subcategories) = <<Misc>>
    /\ Names(Doc[2].subcategories[1].items) = <<Digit(2)>>

-----------------------------------------------------------------------------
(* C4, C6 - the fields of an item (one record, SpecFields) *)

\* the item of the only record
TheItem == Doc[1].subcategories[1].items[1]

C4_Copied(proj, item, from, to) ==
    IF from \in DOMAIN proj
    THEN to \in DOMAIN item /\ item[to] = proj[from]
    ELSE to \notin DOMAIN item

\* C4: name, description and homepage_url are the record's name, summary and
\* url, and a field the record lacks is a key the item lacks.
C4_MissingFieldsOmitted ==
    i > 1 =>
        /\ C4_Copied(projects[1], TheItem, "name", "name")
        /\ C4_Copied(projects[1], TheItem, "summary", "description")
        /\ C4_Copied(projects[1], TheItem, "url", "homepage_url")

\* C6: the item has a project key, equal to state, exactly when state is a
\* non-empty string; it has a repo_url key, equal to the url of the first
\* element of github_repos, exactly when that list has an element and the
\* first one's url is a non-empty string; neither key is ever null.
C6_OptionalFields ==
    i > 1 =>
        LET proj     == projects[1]
            hasState == /\ "state" \in DOMAIN proj
                        /\ proj["state"] # None
                        /\ proj["state"] # Str(<<>>)
            hasRepo  == /\ "github_repos" \in DOMAIN proj
                        /\ proj["github_repos"] # None
                        /\ Len(proj["github_repos"].value) >= 1
                        /\ "url" \in DOMAIN proj["github_repos"].value[1]
                        /\ proj["github_repos"].value[1]["url"] # None
                        /\ proj["github_repos"].value[1]["url"] # Str(<<>>)
        IN  /\ "project" \in DOMAIN TheItem <=> hasState
            /\ hasState => TheItem["project"] = proj["state"]
            /\ "repo_url" \in DOMAIN TheItem <=> hasRepo
            /\ hasRepo => TheItem["repo_url"] = proj["github_repos"].value[1]["url"]
            /\ "project" \in DOMAIN TheItem => TheItem["project"] # None
            /\ "repo_url" \in DOMAIN TheItem => TheItem["repo_url"] # None

C6_Witness ==
    /\ pc = "returned"
    /\ "state" \in DOMAIN projects[1]
    /\ projects[1]["state"] = Str(<<>>)
    /\ "github_repos" \in DOMAIN projects[1]
    /\ projects[1]["github_repos"] = List(<<EmptyDict, [url |-> Str(<<"g">>)]>>)
    /\ "project" \notin DOMAIN TheItem
    /\ "repo_url" \notin DOMAIN TheItem

-----------------------------------------------------------------------------
(* C5 - the shape of a record never raises *)

\* C5: whatever optional fields are missing or null, and whatever the category
\* string, the call does not raise and returns an item for every record.
C5_NeverRaises ==
    /\ pc # "raised"
    /\ pc = "returned" => Cardinality(ItemPlaces) = Len(projects)

-----------------------------------------------------------------------------
(* C7 .. C10 - the logo (SpecLogo) *)

LogoOf(k) == get(projects[k], "logo", None)

\* the record has a logo: the key, with a value that is not null
HasLogo(k) == "logo" \in DOMAIN projects[k] /\ projects[k]["logo"] # None

\* the record has a non-empty logo
HasNonEmptyLogo(k) == HasLogo(k) /\ projects[k]["logo"] # Str(<<>>)

C7_NonNull ==
    \A k \in 1..(i - 1) :
        "logo" \in DOMAIN ItemOf(k) /\ ItemOf(k)["logo"] # None

\* C7 as written: every item has a non-null logo; without a logo directory it
\* is the record's logo when the record has one, "placeholder.svg" otherwise.
C7_LogoVerbatimIfPresent ==
    /\ C7_NonNull
    /\ logo_dir = None =>
          \A k \in 1..(i - 1) :
              ItemOf(k)["logo"] = IF HasLogo(k) THEN LogoOf(k) ELSE PlaceholderSvg

\* C7 amended: every item has a non-null logo; without a logo directory it is
\* the record's logo when that is a non-empty string, and "placeholder.svg"
\* when the logo is missing, null or empty.
C7_LogoVerbatimIfNonEmpty ==
    /\ C7_NonNull
    /\ logo_dir = None =>
          \A k \in 1..(i - 1) :
              ItemOf(k)["logo"] = IF HasNonEmptyLogo(k) THEN LogoOf(k) ELSE PlaceholderSvg

C7_Witness ==
    /\ pc = "returned"
    /\ logo_dir = None
    /\ Len(projects) = 2
    /\ projects[1] = [name |-> Digit(1), logo |-> Str(<<>>)]
    /\ ItemOf(1)["logo"] = PlaceholderSvg
    /\ projects[2] = [name |-> Digit(2), logo |-> Str(<<"a", "/", "x", "?", "q">>)]
    /\ ItemOf(2)["logo"] = Str(<<"a", "/", "x", "?", "q">>)

\* the placeholder under the logo directory, as the item names it
PlaceholderInDir == Str(<<"l", "/">> \o PlaceholderSvg.value)

\* the URLs of the records read so far that satisfy has, in input order
C8_Urls(has(_)) ==
    LET ks == SelectSeq([k \in 1..(i - 1) |-> k], has)
    IN  [n \in 1..Len(ks) |-> LogoOf(ks[n]).value]

\* the attempt for the k-th record failed: the request did, or the file name
\* (the text after the last "/", up to a "?") is empty
C8_Failed(k) ==
    LET url == LogoOf(k).value IN
    \/ responses[k] \in {"request_error", "write_error"}
    \/ url[Len(url)] = "/"
    \/ \E q \in 1..Len(url) :
          /\ url[q] = "?"
          /\ q = 1 \/ url[q - 1] = "/"
          /\ \A j \in q..Len(url) : url[j] # "/"

C8_Statement(has(_)) ==
    logo_dir # None =>
        /\ requests = C8_Urls(has)
        /\ \A k \in 1..(i - 1) :
              /\ ~has(k) => ItemOf(k)["logo"] = PlaceholderSvg
              /\ has(k) /\ C8_Failed(k) => ItemOf(k)["logo"] = PlaceholderInDir
        /\ pc # "raised"
        /\ pc = "returned" => Cardinality(ItemPlaces) = Len(projects)

\* C8 as written: with a logo directory, one GET per record that has a logo
\* and none for a record without, whose logo is "placeholder.svg"; a failed
\* attempt gives the placeholder under the directory and the build goes on.
C8_OneFetchIfPresent == C8_Statement(HasLogo)

\* C8 amended: the same, for the records whose logo is a non-empty string; a
\* record whose logo is missing, null or empty is not fetched.
C8_OneFetchIfNonEmpty == C8_Statement(HasNonEmptyLogo)

C8_Witness ==
    /\ pc = "returned"
    /\ run = 1
    /\ logo_dir # None
    /\ Len(projects) = 2
    /\ responses = <<"request_error", "ok">>
    /\ requests = <<<<"a", "/", "x">>, <<"b", "/", "x">>>>
    /\ ItemOf(1)["logo"] = PlaceholderInDir
    /\ ItemOf(2)["logo"] = Str(<<"l", "/", "x">>)

\* C9: with a logo directory and every fetch successful, the files written are
\* as many as the distinct logo URLs, and each item's logo names the file that
\* holds what its own URL returned.
C9_OneFilePerUrl ==
    (/\ pc = "returned"
     /\ run = 1
     /\ logo_dir # None
     /\ \A k \in 1..Len(projects) :
           HasNonEmptyLogo(k) => responses[k] = "ok" /\ ItemOf(k)["logo"] # PlaceholderInDir)
    => /\ Cardinality(DOMAIN files)
             = Cardinality({LogoOf(k) : k \in {n \in 1..Len(projects) : HasNonEmptyLogo(n)}})
       /\ \A k \in 1..Len(projects) :
             HasNonEmptyLogo(k) =>
                 LET file == resolve(Path(ItemOf(k)["logo"].value))
                 IN  file \in DOMAIN files /\ files[file] = Content(LogoOf(k).value)

C10_SameDocument ==
    (pc = "returned" /\ run = 2 /\ responses = first.responses)
        => result = first.result

\* C10: a second call on the same input returns the same document whenever each
\* logo fetch has the same outcome as in the first call (always, without a
\* logo directory), and no call changes the input records.
C10_RerunIdentical == [](C10_SameDocument) /\ [][projects' = projects]_vars

C10_Witness ==
    /\ pc = "returned"
    /\ run = 2
    /\ logo_dir # None
    /\ responses = <<"ok", "write_error">>
    /\ first.responses = <<"ok", "write_error">>
    /\ requests = <<<<"a", "/", "x">>, <<"a", "/", "x">>>>
    /\ result = first.result

====
